---- MODULE Spec2Model ----
(***************************************************************************)
(* Supply-chain order tracking: the OrderV1 ledger contract                *)
(* (contracts/OrderV1.sol) and the BlockchainService gateway that hydrates *)
(* and lists orders (src/app/core/blockchain/blockchain.service.ts).       *)
(***************************************************************************)
EXTENDS Integers, Sequences, FiniteSets, TLC

\* ------------------------------------------------------------------------
\* Bounds of the model
\* ------------------------------------------------------------------------
\* Orders the registry may hold.
MaxOrders == 2
\* "Stored document" records one order may collect (storeAuditDocument can
\* be repeated without end while the order is Audited).
MaxStoredDocuments == 1
\* Entries of one order's locationHistory.
MaxLocations == 1
\* Successful revoke calls on one order that the call log follows.
MaxRevokes == 1

\* ------------------------------------------------------------------------
\* Values
\* ------------------------------------------------------------------------
\* Width of a bytes32 value.
Bytes32Len == 32

\* Account addresses: one per role slot and one that holds no role.
Accounts == {"acctFarmer", "acctAuditor", "acctWarehouse",
             "acctDistributor", "acctSupermarket", "acctOther"}
ZeroAddress == "0x0"

\* Block timestamps the chain may show (seconds since the epoch).
BlockTimes == {1557000000, 1557000015}

\* uint32(t): every block timestamp before the year 2106 fits 32 bits, and
\* the conversion leaves it as it is.
uint32(t) == t

\* UTF-8 text as the sequence of its byte values.
StrApproved == <<65, 112, 112, 114, 111, 118, 101, 100>>
StrAudited == <<65, 117, 100, 105, 116, 101, 100>>
StrStoredDocument ==
  <<83, 116, 111, 114, 101, 100, 32, 100, 111, 99, 117, 109, 101, 110, 116>>
StrReceived == <<82, 101, 99, 101, 105, 118, 101, 100>>
StrReleased == <<82, 101, 108, 101, 97, 115, 101, 100>>
StrInTransit == <<73, 110, 32, 84, 114, 97, 110, 115, 105, 116>>
StrConfirmedDelivery ==
  <<67, 111, 110, 102, 105, 114, 109, 101, 100, 32,
    68, 101, 108, 105, 118, 101, 114, 121>>
StrApples == <<65, 112, 112, 108, 101, 115>>
StrBananas == <<66, 97, 110, 97, 110, 97, 115>>

\* The product names orders are created with.
items == {StrApples, StrBananas}
Latitudes == {"lat1"}
Longitudes == {"lon1"}

\* A string literal as a bytes32: left-aligned, zero-padded on the right.
bytes32(s) == [i \in 1..Bytes32Len |-> IF i <= Len(s) THEN s[i] ELSE 0]

\* enum State, in declaration order; a value's ordinal is its index - 1.
State == <<"Ordered", "Approved", "Audited", "AtWarehouse",
           "WarehouseReleased", "InTransit", "Delivered", "Revoked">>
SubState == <<"None", "Pending", "InTransit">>
StateOrdinal(s) == CHOOSE n \in 0..(Len(State) - 1) : State[n + 1] = s

\* ------------------------------------------------------------------------
\* State
\* ------------------------------------------------------------------------
VARIABLES
  registry,         \* OrdersV1: the order addresses, in creation order
  contractCreator,  \* per order: the creator address
  meta,             \* per order: Meta {product, amount, revoked}
  state,            \* per order: State
  subState,         \* per order: SubState
  history,          \* per order: Record[] {who, action, when}
  locationHistory,  \* per order: Location[] {latitude, longitude, who}
  owners,           \* per order: the 5 owner slots
  now,              \* timestamp of the current block
  lastCall,         \* receipt of the latest transaction
  calls,            \* per order: the successful transition calls so far
  servicePromise,   \* BlockchainService: state of the getAccounts promise
  accounts,         \* BlockchainService.accounts
  from,             \* BlockchainService.from
  builds,           \* the buildOrder calls: 0 is a direct getOrderByAddress,
                    \* k >= 1 the k-th getOrder of the page being listed
  page,             \* the orders(startIndex, pageSize) call
  send,             \* the sendOrder(order, methodName) call
  creation,         \* the createOrder(productType, quantity) call
  newOrderSource,   \* number of signals sent on the new-order channel
  wire              \* the latest transaction the gateway has issued:
                    \* method, sender, whether getAccounts had resolved

ledgerVars == <<registry, contractCreator, meta, state, subState, history,
                locationHistory, owners>>
dispatchVars == <<send, creation, newOrderSource, wire>>
gatewayVars == <<servicePromise, accounts, from, builds, page, send, creation,
                 newOrderSource, wire>>
vars == <<registry, contractCreator, meta, state, subState, history,
          locationHistory, owners, now, lastCall, calls,
          servicePromise, accounts, from, builds, page, send, creation,
          newOrderSource, wire>>

\* The deployed order ledgers.
Deployed == DOMAIN state

NoCall ==
  [addr |-> 0, sender |-> ZeroAddress, method |-> "none", args |-> <<>>,
   ok |-> TRUE]
Receipt(a, sender, method, args, ok) ==
  [addr |-> a, sender |-> sender, method |-> method, args |-> args, ok |-> ok]

\* ------------------------------------------------------------------------
\* OrderAccessControl: role slots, owner slots and their guards
\* ------------------------------------------------------------------------
farmer == "acctFarmer"
auditor == "acctAuditor"
warehouse == "acctWarehouse"
distributor == "acctDistributor"
supermarket == "acctSupermarket"

onlyFarmer(sender) == sender = farmer
onlyAuditor(sender) == sender = auditor
onlyWarehouse(sender) == sender = warehouse
onlyDistributor(sender) == sender = distributor
onlySupermarket(sender) == sender = supermarket
onlyFarmerOrAuditor(sender) == sender = farmer \/ sender = auditor
onlyContractOwners(a, sender) == \E i \in 1..5 : owners[a][i] = sender

\* The owner tuples setOwners is called with: one address in all 5 slots
\* (what the gateway sends) and one tuple that names two addresses.
OwnerArgs ==
  {[i \in 1..5 |-> "acctOther"],
   <<"acctFarmer", "acctOther", "acctOther", "acctOther", "acctOther">>}

\* ------------------------------------------------------------------------
\* OrderV1
\* ------------------------------------------------------------------------
\* A transaction that fails a require: nothing of the ledger changes.
Revert(a, sender, method, args) ==
  /\ UNCHANGED ledgerVars
  /\ lastCall' = Receipt(a, sender, method, args, FALSE)

\* A transaction that went through.
Success(a, sender, method, args) ==
  lastCall' = Receipt(a, sender, method, args, TRUE)

\* Mutant of inState: accepts every state from the required one on.
inStateAtLeast(a, _state) == StateOrdinal(state[a]) >= StateOrdinal(_state)

inState(a, _state) == state[a] = _state

\* Mutant of addRecord: records the order's creator instead of msg.sender.
addRecordByCreator(a, sender, action) ==
  Append(history[a],
         [who |-> contractCreator[a], action |-> action, when |-> uint32(now)])

\* Mutant of addRecord: puts the new record first.
addRecordPrepends(a, sender, action) ==
  <<[who |-> sender, action |-> action, when |-> uint32(now)]>> \o history[a]

\* history.push(Record({who: msg.sender, action: action, when: uint32(now)}))
addRecord(a, sender, action) ==
  Append(history[a],
         [who |-> sender, action |-> action, when |-> uint32(now)])

approve(a, sender) ==
  IF onlyFarmer(sender) /\ inState(a, "Ordered")
  THEN /\ history' = [history EXCEPT ![a] = addRecord(a, sender, bytes32(StrApproved))]
       /\ state' = [state EXCEPT ![a] = "Approved"]
       /\ UNCHANGED <<registry, contractCreator, meta, subState, locationHistory, owners>>
       /\ Success(a, sender, "approve", <<>>)
  ELSE Revert(a, sender, "approve", <<>>)

validated(a, sender) ==
  IF onlyAuditor(sender) /\ inState(a, "Approved")
  THEN /\ history' = [history EXCEPT ![a] = addRecord(a, sender, bytes32(StrAudited))]
       /\ state' = [state EXCEPT ![a] = "Audited"]
       /\ UNCHANGED <<registry, contractCreator, meta, subState, locationHistory, owners>>
       /\ Success(a, sender, "validated", <<>>)
  ELSE Revert(a, sender, "validated", <<>>)

storeAuditDocument(a, sender) ==
  IF onlyAuditor(sender) /\ inState(a, "Audited")
  THEN /\ history' = [history EXCEPT ![a] = addRecord(a, sender, bytes32(StrStoredDocument))]
       /\ UNCHANGED <<registry, contractCreator, meta, state, subState, locationHistory, owners>>
       /\ Success(a, sender, "storeAuditDocument", <<>>)
  ELSE Revert(a, sender, "storeAuditDocument", <<>>)

\* Mutant of warehouseReceivedOrder: requires Approved instead of Audited.
warehouseReceivedOrderFromApproved(a, sender) ==
  IF onlyWarehouse(sender) /\ inState(a, "Approved")
  THEN /\ state' = [state EXCEPT ![a] = "AtWarehouse"]
       /\ history' = [history EXCEPT ![a] = addRecord(a, sender, bytes32(StrReceived))]
       /\ UNCHANGED <<registry, contractCreator, meta, subState, locationHistory, owners>>
       /\ Success(a, sender, "warehouseReceivedOrder", <<>>)
  ELSE Revert(a, sender, "warehouseReceivedOrder", <<>>)

warehouseReceivedOrder(a, sender) ==
  IF onlyWarehouse(sender) /\ inState(a, "Audited")
  THEN /\ state' = [state EXCEPT ![a] = "AtWarehouse"]
       /\ history' = [history EXCEPT ![a] = addRecord(a, sender, bytes32(StrReceived))]
       /\ UNCHANGED <<registry, contractCreator, meta, subState, locationHistory, owners>>
       /\ Success(a, sender, "warehouseReceivedOrder", <<>>)
  ELSE Revert(a, sender, "warehouseReceivedOrder", <<>>)

warehouseReleasedOrder(a, sender) ==
  IF onlyWarehouse(sender) /\ inState(a, "AtWarehouse")
  THEN /\ state' = [state EXCEPT ![a] = "WarehouseReleased"]
       /\ history' = [history EXCEPT ![a] = addRecord(a, sender, bytes32(StrReleased))]
       /\ UNCHANGED <<registry, contractCreator, meta, subState, locationHistory, owners>>
       /\ Success(a, sender, "warehouseReleasedOrder", <<>>)
  ELSE Revert(a, sender, "warehouseReleasedOrder", <<>>)

receivedAndInTransit(a, sender) ==
  IF onlyDistributor(sender) /\ inState(a, "WarehouseReleased")
  THEN /\ history' = [history EXCEPT ![a] = addRecord(a, sender, bytes32(StrInTransit))]
       /\ state' = [state EXCEPT ![a] = "InTransit"]
       /\ UNCHANGED <<registry, contractCreator, meta, subState, locationHistory, owners>>
       /\ Success(a, sender, "receivedAndInTransit", <<>>)
  ELSE Revert(a, sender, "receivedAndInTransit", <<>>)

confirmDelivery(a, sender) ==
  IF onlySupermarket(sender) /\ inState(a, "InTransit")
  THEN /\ history' = [history EXCEPT ![a] = addRecord(a, sender, bytes32(StrConfirmedDelivery))]
       /\ state' = [state EXCEPT ![a] = "Delivered"]
       /\ UNCHANGED <<registry, contractCreator, meta, subState, locationHistory, owners>>
       /\ Success(a, sender, "confirmDelivery", <<>>)
  ELSE Revert(a, sender, "confirmDelivery", <<>>)

\* Mutant of revoke: sets the state and leaves meta.revoked.
revokeStateOnly(a, sender) ==
  IF onlyFarmerOrAuditor(sender)
  THEN /\ state' = [state EXCEPT ![a] = "Revoked"]
       /\ UNCHANGED <<registry, contractCreator, meta, subState, history,
                      locationHistory, owners>>
       /\ Success(a, sender, "revoke", <<>>)
  ELSE Revert(a, sender, "revoke", <<>>)

\* Mutant of revoke: sets meta.revoked and leaves the state.
revokeFlagOnly(a, sender) ==
  IF onlyFarmerOrAuditor(sender)
  THEN /\ meta' = [meta EXCEPT ![a].revoked = TRUE]
       /\ UNCHANGED <<registry, contractCreator, state, subState, history,
                      locationHistory, owners>>
       /\ Success(a, sender, "revoke", <<>>)
  ELSE Revert(a, sender, "revoke", <<>>)

revoke(a, sender) ==
  IF onlyFarmerOrAuditor(sender)
  THEN /\ state' = [state EXCEPT ![a] = "Revoked"]
       /\ meta' = [meta EXCEPT ![a].revoked = TRUE]
       /\ UNCHANGED <<registry, contractCreator, subState, history, locationHistory, owners>>
       /\ Success(a, sender, "revoke", <<>>)
  ELSE Revert(a, sender, "revoke", <<>>)

getHistoryLength(a) == Len(history[a])

\* setOwners replaces the 5 owner slots; it is open to every caller.
setOwners(a, sender, slots) ==
  /\ owners' = [owners EXCEPT ![a] = slots]
  /\ UNCHANGED <<registry, contractCreator, meta, state, subState, history,
                 locationHistory>>
  /\ Success(a, sender, "setOwners", slots)

\* Mutant of updateLocation: also writes a history record.
updateLocationRecorded(a, sender, latitude, longitude) ==
  IF onlyContractOwners(a, sender)
  THEN /\ locationHistory' =
            [locationHistory EXCEPT ![a] =
               Append(@, [latitude |-> latitude, longitude |-> longitude,
                          who |-> sender])]
       /\ history' = [history EXCEPT ![a] = addRecord(a, sender, latitude)]
       /\ UNCHANGED <<registry, contractCreator, meta, state, subState, owners>>
       /\ Success(a, sender, "updateLocation", <<latitude, longitude>>)
  ELSE Revert(a, sender, "updateLocation", <<latitude, longitude>>)

updateLocation(a, sender, latitude, longitude) ==
  IF onlyContractOwners(a, sender)
  THEN /\ locationHistory' =
            [locationHistory EXCEPT ![a] =
               Append(@, [latitude |-> latitude, longitude |-> longitude,
                          who |-> sender])]
       /\ UNCHANGED <<registry, contractCreator, meta, state, subState, history,
                      owners>>
       /\ Success(a, sender, "updateLocation", <<latitude, longitude>>)
  ELSE Revert(a, sender, "updateLocation", <<latitude, longitude>>)

getLocationLength(a) == Len(locationHistory[a])

\* The storage of an OrderV1 when its constructor returns.
constructor(product, amount, creator) ==
  [contractCreator |-> creator,
   meta |-> [product |-> product, amount |-> amount, revoked |-> FALSE],
   state |-> "Ordered",
   subState |-> "None",
   history |-> <<>>,
   locationHistory |-> <<>>,
   owners |-> [i \in 1..5 |-> ZeroAddress]]

\* ------------------------------------------------------------------------
\* OrdersV1: the registry
\* ------------------------------------------------------------------------
\* create deploys a new OrderV1 with the caller as creator and appends its
\* address to the registry.
create(product, amount, sender) ==
  LET a == Len(registry) + 1
      c == constructor(product, amount, sender)
  IN /\ registry' = Append(registry, a)
     /\ contractCreator' = contractCreator @@ (a :> c.contractCreator)
     /\ meta' = meta @@ (a :> c.meta)
     /\ state' = state @@ (a :> c.state)
     /\ subState' = subState @@ (a :> c.subState)
     /\ history' = history @@ (a :> c.history)
     /\ locationHistory' = locationHistory @@ (a :> c.locationHistory)
     /\ owners' = owners @@ (a :> c.owners)
     /\ calls' = calls @@ (a :> <<>>)
     /\ Success(a, sender, "create", <<product, amount>>)

getAmount == Len(registry)

\* ------------------------------------------------------------------------
\* BlockchainService: conversions
\* ------------------------------------------------------------------------
Min(a, b) == IF a <= b THEN a ELSE b

\* web3.toUtf8: the bytes up to the first zero byte, as text.
toUtf8(b) ==
  LET zeros == {i \in 1..Len(b) : b[i] = 0}
  IN IF zeros = {} THEN b
     ELSE SubSeq(b, 1, (CHOOSE i \in zeros : \A j \in zeros : i <= j) - 1)

\* The decimal text of a number, as the uint8 of state() comes back.
RECURSIVE toString(_)
toString(n) ==
  IF n < 10 THEN <<48 + n>> ELSE Append(toString(n \div 10), 48 + (n % 10))

\* parseInt(text, 10): the value of the leading decimal digits (-1: NaN).
RECURSIVE parseDigits(_, _)
parseDigits(text, acc) ==
  IF text = <<>> \/ text[1] \notin 48..57 THEN acc
  ELSE parseDigits(Tail(text), 10 * acc + (text[1] - 48))
parseInt(text) ==
  IF text = <<>> \/ text[1] \notin 48..57 THEN -1 ELSE parseDigits(text, 0)

\* enum OrderStatus: the name of a status number.
OrderStatus(n) == IF n \in 0..(Len(State) - 1) THEN State[n + 1] ELSE "undefined"

\* sequentialArray(start, count): start, start + 1, ... (count numbers).
sequentialArray(start, count) == [k \in 1..count |-> start + k - 1]

\* ------------------------------------------------------------------------
\* BlockchainService: buildOrder
\* ------------------------------------------------------------------------
NoOrder ==
  [id |-> 0, history |-> <<>>, amount |-> 0, product |-> <<>>, status |-> -1,
   statusLabel |-> "undefined"]
NoRecord == [action |-> <<>>, owner |-> ZeroAddress, transactionId |-> ""]

\* failed: the reads that were answered with an error, as
\* [read, i, why] (i: the index of a history(i), else -1).
BuildIdle ==
  [pc |-> "idle", index |-> -1, started |-> 0, lenDone |-> FALSE,
   historyLength |-> 0, got |-> {}, recs |-> <<>>, historyDone |-> FALSE,
   metaDone |-> FALSE, statusDone |-> FALSE, failed |-> {},
   order |-> NoOrder]

\* getOrder(index) waiting for the registry's orders(index).
AddressPending(index) == [BuildIdle EXCEPT !.pc = "address", !.index = index]

\* buildOrder(contract, address): a new OrderModel with its id; the three
\* loads are issued.
buildOrder(index, address) ==
  [BuildIdle EXCEPT !.pc = "running", !.index = index,
                    !.started = Len(calls[address]),
                    !.order = [NoOrder EXCEPT !.id = address]]

\* Mutant of getHistoryRecord: the action is kept as the bytes32 it came as.
getHistoryRecordRaw(record) ==
  [action |-> record.action, owner |-> record.who,
   transactionId |-> "0x4534534534abec533"]

\* getHistoryRecord's conversion of a history(i) answer.
getHistoryRecord(record) ==
  [action |-> toUtf8(record.action), owner |-> record.who,
   transactionId |-> "0x4534534534abec533"]

\* Mutant of historyLengthLoaded: one history(i) read too many.
historyLengthLoadedOneMore(b, historyLength) ==
  [b EXCEPT !.lenDone = TRUE, !.historyLength = historyLength,
            !.recs = [k \in 1..Len(sequentialArray(0, historyLength + 1))
                        |-> NoRecord]]

\* getHistory: the answer to getHistoryLength.  With no record the history
\* is []; else history(i) is asked for each i of sequentialArray(0, length).
historyLengthLoaded(b, historyLength) ==
  IF historyLength > 0
  THEN [b EXCEPT !.lenDone = TRUE, !.historyLength = historyLength,
                 !.recs = [k \in 1..Len(sequentialArray(0, historyLength))
                             |-> NoRecord]]
  ELSE [b EXCEPT !.lenDone = TRUE, !.historyLength = historyLength,
                 !.historyDone = TRUE, !.order.history = <<>>]

\* getHistory: the answer to history(i).  With the last one in, Promise.all
\* gives the records in index order and loadHistory sets order.history.
historyRecordLoaded(b, i, record) ==
  LET recs == [b.recs EXCEPT ![i + 1] = getHistoryRecord(record)]
      got == b.got \cup {i}
  IN IF got = {sequentialArray(0, b.historyLength)[k] :
                 k \in 1..b.historyLength}
     THEN [b EXCEPT !.recs = recs, !.got = got, !.historyDone = TRUE,
                    !.order.history = recs]
     ELSE [b EXCEPT !.recs = recs, !.got = got]

\* loadMeta: the answer to meta().
metaLoaded(b, m) ==
  [b EXCEPT !.metaDone = TRUE, !.order.amount = m.amount,
            !.order.product = toUtf8(m.product)]

\* loadStatus: the answer to state().
statusLoaded(b, status) ==
  [b EXCEPT !.statusDone = TRUE,
            !.order.status = parseInt(toString(status)),
            !.order.statusLabel = OrderStatus(status)]

Running(t) == t \in DOMAIN builds /\ builds[t].pc = "running"

\* The reads of a buildOrder that are issued and not yet answered.
PendingReads(b) ==
  LET answered == {[read |-> f.read, i |-> f.i] : f \in b.failed}
      issued ==
        {[read |-> "getHistoryLength", i |-> -1],
         [read |-> "meta", i |-> -1], [read |-> "state", i |-> -1]}
        \cup {[read |-> "history", i |-> i] : i \in 0..(Len(b.recs) - 1)}
      done ==
        {r \in issued :
           \/ r.read = "getHistoryLength" /\ b.lenDone
           \/ r.read = "meta" /\ b.metaDone
           \/ r.read = "state" /\ b.statusDone
           \/ r.read = "history" /\ r.i \in b.got}
  IN (issued \ done) \ answered

\* callbackToResolve with an error: the read's promise is rejected.
readFailed(b, r, why) ==
  [b EXCEPT !.failed = @ \cup {[read |-> r.read, i |-> r.i, why |-> why]}]

\* Mutant of promiseAll: waits for every promise and resolves whatever
\* their outcomes (Promise.allSettled).
promiseAllSettled(settled) ==
  IF \E k \in 1..Len(settled) : settled[k] = "pending" THEN "pending"
  ELSE "resolved"

\* Promise.all: rejected as soon as one promise is rejected, resolved when
\* all are resolved.
promiseAll(settled) ==
  IF \E k \in 1..Len(settled) : settled[k] = "rejected" THEN "rejected"
  ELSE IF \A k \in 1..Len(settled) : settled[k] = "resolved" THEN "resolved"
  ELSE "pending"

\* getHistory's promise: the getHistoryLength read, then Promise.all of the
\* history(i) reads.
loadHistory(b) ==
  IF \E f \in b.failed : f.read = "getHistoryLength" THEN "rejected"
  ELSE IF ~b.lenDone THEN "pending"
  ELSE promiseAll([k \in 1..Len(b.recs) |->
                     IF (k - 1) \in b.got THEN "resolved"
                     ELSE IF \E f \in b.failed :
                               f.read = "history" /\ f.i = k - 1
                          THEN "rejected"
                     ELSE "pending"])
loadMeta(b) ==
  IF \E f \in b.failed : f.read = "meta" THEN "rejected"
  ELSE IF b.metaDone THEN "resolved" ELSE "pending"
loadStatus(b) ==
  IF \E f \in b.failed : f.read = "state" THEN "rejected"
  ELSE IF b.statusDone THEN "resolved" ELSE "pending"

GetOrderByAddress ==
  \E a \in Deployed :
    /\ builds[0].pc \in {"idle", "resolved", "rejected"}
    /\ builds' = [builds EXCEPT ![0] = buildOrder(-1, a)]
    /\ UNCHANGED <<ledgerVars, now, lastCall, calls, servicePromise, accounts,
                   from, page, dispatchVars>>

GetHistoryLengthReply ==
  \E t \in DOMAIN builds :
    /\ Running(t)
    /\ [read |-> "getHistoryLength", i |-> -1] \in PendingReads(builds[t])
    /\ builds' = [builds EXCEPT ![t] =
                    historyLengthLoaded(@, getHistoryLength(@.order.id))]
    /\ UNCHANGED <<ledgerVars, now, lastCall, calls, servicePromise, accounts,
                   from, page, dispatchVars>>

HistoryReply ==
  \E t \in DOMAIN builds :
    /\ Running(t)
    /\ \E r \in PendingReads(builds[t]) :
         /\ r.read = "history"
         /\ IF r.i < Len(history[builds[t].order.id])
            THEN builds' = [builds EXCEPT ![t] =
                   historyRecordLoaded(@, r.i, history[@.order.id][r.i + 1])]
            ELSE builds' = [builds EXCEPT ![t] = readFailed(@, r, "range")]
    /\ UNCHANGED <<ledgerVars, now, lastCall, calls, servicePromise, accounts,
                   from, page, dispatchVars>>

MetaReply ==
  \E t \in DOMAIN builds :
    /\ Running(t)
    /\ [read |-> "meta", i |-> -1] \in PendingReads(builds[t])
    /\ builds' = [builds EXCEPT ![t] = metaLoaded(@, meta[@.order.id])]
    /\ UNCHANGED <<ledgerVars, now, lastCall, calls, servicePromise, accounts,
                   from, page, dispatchVars>>

StateReply ==
  \E t \in DOMAIN builds :
    /\ Running(t)
    /\ [read |-> "state", i |-> -1] \in PendingReads(builds[t])
    /\ builds' = [builds EXCEPT ![t] =
                    statusLoaded(@, StateOrdinal(state[@.order.id]))]
    /\ UNCHANGED <<ledgerVars, now, lastCall, calls, servicePromise, accounts,
                   from, page, dispatchVars>>

\* A read is answered with an error (the node or the transport fails).
ReadError ==
  \E t \in DOMAIN builds :
    /\ Running(t)
    /\ \E r \in PendingReads(builds[t]) :
         builds' = [builds EXCEPT ![t] = readFailed(@, r, "transport")]
    /\ UNCHANGED <<ledgerVars, now, lastCall, calls, servicePromise, accounts,
                   from, page, dispatchVars>>

\* Promise.all([loadHistory, loadMeta, loadStatus]) resolves with the order.
\* (page.completed: the page's hydrations in the order they completed.)
BuildOrderResolve ==
  \E t \in DOMAIN builds :
    /\ Running(t)
    /\ promiseAll(<<loadHistory(builds[t]), loadMeta(builds[t]),
                    loadStatus(builds[t])>>) = "resolved"
    /\ builds' = [builds EXCEPT ![t].pc = "resolved"]
    /\ page' = IF t >= 1 THEN [page EXCEPT !.completed = Append(@, t)]
               ELSE page
    /\ UNCHANGED <<ledgerVars, now, lastCall, calls, servicePromise, accounts,
                   from, dispatchVars>>

\* Promise.all([loadHistory, loadMeta, loadStatus]) rejects: buildOrder
\* fails, and with it the getOrder and the page it belongs to.
BuildOrderReject ==
  \E t \in DOMAIN builds :
    /\ Running(t)
    /\ promiseAll(<<loadHistory(builds[t]), loadMeta(builds[t]),
                    loadStatus(builds[t])>>) = "rejected"
    /\ builds' = [builds EXCEPT ![t].pc = "rejected"]
    /\ page' = IF t >= 1 THEN [page EXCEPT !.pc = "rejected"] ELSE page
    /\ UNCHANGED <<ledgerVars, now, lastCall, calls, servicePromise, accounts,
                   from, dispatchVars>>

\* ------------------------------------------------------------------------
\* BlockchainService: getAccounts and orders(startIndex, pageSize)
\* ------------------------------------------------------------------------
\* The account lists the node may answer getAccounts with.
AccountLists == {<<"acctOther", "acctFarmer">>}

GetAccountsReply ==
  /\ servicePromise = "pending"
  /\ \E list \in AccountLists :
       /\ accounts' = list
       /\ from' = list[2]
  /\ servicePromise' = "resolved"
  /\ UNCHANGED <<ledgerVars, now, lastCall, calls, builds, page, dispatchVars>>

\* getAccounts is answered with an error: servicePromise is rejected and
\* accounts, from and sendDefaults.from stay undefined.
GetAccountsError ==
  /\ servicePromise = "pending"
  /\ servicePromise' = "rejected"
  /\ UNCHANGED <<ledgerVars, now, lastCall, calls, accounts, from, builds, page,
                 dispatchVars>>

StartIndices == 0..MaxOrders
PageSizes == {0, 1, 2}

PageIdle ==
  [pc |-> "idle", startIndex |-> 0, pageSize |-> 0, countAtCall |-> 0,
   total |-> 0, indices |-> <<>>, completed |-> <<>>,
   result |-> [orders |-> <<>>, total |-> 0]]

\* Mutant of pageIndices: the window is not clamped to total.
pageIndicesUnclamped(total, startIndex, pageSize) ==
  sequentialArray(startIndex, (startIndex + pageSize) - startIndex)

\* The indices orders() asks for when total > 0.
pageIndices(total, startIndex, pageSize) ==
  LET maxIndex == Min(total, startIndex + pageSize)
  IN sequentialArray(startIndex, maxIndex - startIndex)

\* orders(startIndex, pageSize) is called: orderCount() is issued.
Orders ==
  \E startIndex \in StartIndices, pageSize \in PageSizes :
    /\ page.pc \in {"idle", "resolved", "rejected"}
    /\ page' = [PageIdle EXCEPT !.pc = "count", !.startIndex = startIndex,
                                !.pageSize = pageSize,
                                !.countAtCall = Len(registry)]
    /\ builds' = (0 :> builds[0])
    /\ UNCHANGED <<ledgerVars, now, lastCall, calls, servicePromise, accounts,
                   from, dispatchVars>>

\* The answer to getAmount (sent once servicePromise has resolved).
OrderCountReply ==
  /\ page.pc = "count"
  /\ servicePromise = "resolved"
  /\ LET total == getAmount
         indices == IF total > 0
                    THEN pageIndices(total, page.startIndex, page.pageSize)
                    ELSE <<>>
     IN IF Len(indices) = 0
        THEN /\ page' = [page EXCEPT !.pc = "resolved", !.total = total,
                                     !.result = [orders |-> <<>>, total |-> total]]
             /\ UNCHANGED builds
        ELSE /\ page' = [page EXCEPT !.pc = "fetch", !.total = total,
                                     !.indices = indices]
             /\ builds' = builds @@
                  [k \in 1..Len(indices) |-> AddressPending(indices[k])]
  /\ UNCHANGED <<ledgerVars, now, lastCall, calls, servicePromise, accounts,
                 from, dispatchVars>>

\* The answer to the registry's orders(index): the address, and buildOrder
\* starts; an index outside the registry is a range error, which fails
\* getOrder and with it the whole page.
OrderReply ==
  \E k \in DOMAIN builds :
    /\ builds[k].pc = "address"
    /\ page.pc = "fetch"
    /\ IF builds[k].index \in 0..(Len(registry) - 1)
       THEN /\ builds' = [builds EXCEPT ![k] =
                            buildOrder(@.index, registry[@.index + 1])]
            /\ UNCHANGED page
       ELSE /\ builds' = [builds EXCEPT ![k].pc = "rejected"]
            /\ page' = [page EXCEPT !.pc = "rejected"]
    /\ UNCHANGED <<ledgerVars, now, lastCall, calls, servicePromise, accounts,
                   from, dispatchVars>>

\* Mutant of OrdersResolve: the orders in the order their hydrations
\* completed.
OrdersResolveInCompletionOrder ==
  /\ page.pc = "fetch"
  /\ \A k \in 1..Len(page.indices) : builds[k].pc = "resolved"
  /\ page' = [page EXCEPT
                !.pc = "resolved",
                !.result = [orders |-> [k \in 1..Len(page.indices)
                                          |-> builds[page.completed[k]].order],
                            total |-> page.total]]
  /\ UNCHANGED <<ledgerVars, now, lastCall, calls, servicePromise, accounts,
                 from, builds, dispatchVars>>

\* Promise.all(orderPromises) resolves: the orders in the order of indices.
OrdersResolve ==
  /\ page.pc = "fetch"
  /\ \A k \in 1..Len(page.indices) : builds[k].pc = "resolved"
  /\ page' = [page EXCEPT
                !.pc = "resolved",
                !.result = [orders |-> [k \in 1..Len(page.indices)
                                          |-> builds[k].order],
                            total |-> page.total]]
  /\ UNCHANGED <<ledgerVars, now, lastCall, calls, servicePromise, accounts,
                 from, builds, dispatchVars>>

\* ------------------------------------------------------------------------
\* Steps of one order ledger: every account may send every call
\* ------------------------------------------------------------------------
StoredDocuments(a) ==
  Cardinality({i \in 1..Len(history[a]) :
                 history[a][i].action = bytes32(StrStoredDocument)})

\* A new block: its timestamp is above the previous block's.
Mine ==
  /\ \E t \in BlockTimes : t > now /\ now' = t
  /\ UNCHANGED <<ledgerVars, lastCall, calls, gatewayVars>>

Approve ==
  \E a \in Deployed, s \in Accounts : approve(a, s) /\ UNCHANGED <<now, calls, gatewayVars>>
Validated ==
  \E a \in Deployed, s \in Accounts : validated(a, s) /\ UNCHANGED <<now, calls, gatewayVars>>
StoreAuditDocument ==
  \E a \in Deployed, s \in Accounts :
    /\ StoredDocuments(a) < MaxStoredDocuments
    /\ storeAuditDocument(a, s)
    /\ UNCHANGED <<now, calls, gatewayVars>>
WarehouseReceivedOrder ==
  \E a \in Deployed, s \in Accounts :
    warehouseReceivedOrder(a, s) /\ UNCHANGED <<now, calls, gatewayVars>>
WarehouseReleasedOrder ==
  \E a \in Deployed, s \in Accounts :
    warehouseReleasedOrder(a, s) /\ UNCHANGED <<now, calls, gatewayVars>>
ReceivedAndInTransit ==
  \E a \in Deployed, s \in Accounts :
    receivedAndInTransit(a, s) /\ UNCHANGED <<now, calls, gatewayVars>>
ConfirmDelivery ==
  \E a \in Deployed, s \in Accounts :
    confirmDelivery(a, s) /\ UNCHANGED <<now, calls, gatewayVars>>
Revoke ==
  \E a \in Deployed, s \in Accounts : revoke(a, s) /\ UNCHANGED <<now, calls, gatewayVars>>
SetOwners ==
  \E a \in Deployed, s \in Accounts, slots \in OwnerArgs :
    setOwners(a, s, slots) /\ UNCHANGED <<now, calls, gatewayVars>>
UpdateLocation ==
  \E a \in Deployed, s \in Accounts, lat \in Latitudes, lon \in Longitudes :
    /\ Len(locationHistory[a]) < MaxLocations
    /\ updateLocation(a, s, lat, lon)
    /\ UNCHANGED <<now, calls, gatewayVars>>

\* No transaction issued yet.
NoneIssued == [method |-> "none", sender |-> "undefined", resolved |-> TRUE]

\* No sendOrder call yet.  events: the steps of the call so far; value: the
\* value its promise resolved with (<<>>: undefined); logged: what it gave
\* to console.error; published: what it sent on updatedOrderSource.
SendIdle ==
  [pc |-> "idle", id |-> 0, methodName |-> "none", userAddress |-> "undefined",
   slots |-> <<>>, events |-> <<>>, promise |-> "none", value |-> <<>>,
   logged |-> <<>>, published |-> <<>>]

\* No createOrder call yet.
CreationIdle ==
  [pc |-> "idle", productType |-> <<>>, quantity |-> 0, outcome |-> "none",
   promise |-> "none", signals |-> 0]

\* Construction of the gateway: getAccounts is issued and not yet answered.
InitGateway ==
  /\ servicePromise = "pending"
  /\ accounts = <<>>
  /\ from = "undefined"
  /\ builds = (0 :> BuildIdle)
  /\ page = PageIdle
  /\ send = SendIdle
  /\ creation = CreationIdle
  /\ newOrderSource = 0
  /\ wire = NoneIssued

\* One OrderV1 ledger from its constructor on.
InitOrder ==
  /\ registry = <<1>>
  /\ LET c == constructor(bytes32(StrApples), 10, "acctSupermarket")
     IN /\ contractCreator = (1 :> c.contractCreator)
        /\ meta = (1 :> c.meta)
        /\ state = (1 :> c.state)
        /\ subState = (1 :> c.subState)
        /\ history = (1 :> c.history)
        /\ locationHistory = (1 :> c.locationHistory)
        /\ owners = (1 :> c.owners)
  /\ now \in BlockTimes
  /\ lastCall = NoCall
  /\ calls = (1 :> <<>>)
  /\ InitGateway

NextOrder ==
  \/ Mine
  \/ Approve
  \/ Validated
  \/ StoreAuditDocument
  \/ WarehouseReceivedOrder
  \/ WarehouseReleasedOrder
  \/ ReceivedAndInTransit
  \/ ConfirmDelivery
  \/ Revoke
  \/ SetOwners
  \/ UpdateLocation

SpecOrder == InitOrder /\ [][NextOrder]_vars

\* ------------------------------------------------------------------------
\* The gateway beside the ledgers: the transition calls that go through
\* ------------------------------------------------------------------------
Revokes(a) ==
  Cardinality({i \in 1..Len(calls[a]) : calls[a][i].method = "revoke"})

Call(a, s, m) ==
  CASE m = "approve" -> approve(a, s)
    [] m = "validated" -> validated(a, s)
    [] m = "storeAuditDocument" -> storeAuditDocument(a, s)
    [] m = "warehouseReceivedOrder" -> warehouseReceivedOrder(a, s)
    [] m = "warehouseReleasedOrder" -> warehouseReleasedOrder(a, s)
    [] m = "receivedAndInTransit" -> receivedAndInTransit(a, s)
    [] m = "confirmDelivery" -> confirmDelivery(a, s)
    [] m = "revoke" -> revoke(a, s)

\* A call of one of the methods M that succeeds, sent by any account.
Transition(M) ==
  \E a \in Deployed, s \in Accounts, m \in M :
    /\ m = "storeAuditDocument" => StoredDocuments(a) < MaxStoredDocuments
    /\ m = "revoke" => Revokes(a) < MaxRevokes
    /\ Call(a, s, m)
    /\ lastCall'.ok
    /\ calls' = [calls EXCEPT ![a] = Append(@, [who |-> s, method |-> m])]
    /\ UNCHANGED <<now, gatewayVars>>

\* A new order through the registry.
Create ==
  /\ Len(registry) < MaxOrders
  /\ \E p \in items, s \in {"acctSupermarket"} : create(bytes32(p), 10, s)
  /\ UNCHANGED <<now, gatewayVars>>

\* One order and hydrations of it, while the order goes from Ordered to
\* WarehouseReleased or is revoked.
EarlyCalls ==
  {"approve", "validated", "storeAuditDocument", "warehouseReceivedOrder",
   "warehouseReleasedOrder", "revoke"}

NextHydrate ==
  \/ Transition(EarlyCalls)
  \/ GetOrderByAddress
  \/ GetHistoryLengthReply
  \/ HistoryReply
  \/ MetaReply
  \/ StateReply
  \/ BuildOrderResolve

SpecHydrate == InitOrder /\ [][NextHydrate]_vars

\* The registry and pages listed from it.
InitList ==
  /\ registry = <<>>
  /\ contractCreator = <<>>
  /\ meta = <<>>
  /\ state = <<>>
  /\ subState = <<>>
  /\ history = <<>>
  /\ locationHistory = <<>>
  /\ owners = <<>>
  /\ now \in {1557000000}
  /\ lastCall = NoCall
  /\ calls = <<>>
  /\ InitGateway

NextList ==
  \/ Create
  \/ Transition({"approve"})
  \/ GetAccountsReply
  \/ Orders
  \/ OrderCountReply
  \/ OrderReply
  \/ GetHistoryLengthReply
  \/ HistoryReply
  \/ MetaReply
  \/ StateReply
  \/ BuildOrderResolve
  \/ OrdersResolve

SpecList == InitList /\ [][NextList]_vars

\* ------------------------------------------------------------------------
\* BlockchainService: sendOrder (the dispatcher of the action methods)
\* ------------------------------------------------------------------------
\* The mutating calls of an OrderV1 a method name may stand for.
LedgerMethods ==
  {"approve", "validated", "storeAuditDocument", "warehouseReceivedOrder",
   "warehouseReleasedOrder", "receivedAndInTransit", "confirmDelivery",
   "revoke"}

\* The method names the public action methods hand to sendOrder.
ActionMethodNames ==
  {"approve", "confirmDelivery", "delivered", "receivedAndInTransit",
   "revoke", "storeAuditDocument", "validated", "verifyInTransit",
   "warehouseReceivedOrder", "warehouseReleasedOrder"}

\* The public action methods and the method name each hands to sendOrder.
ActionMethods ==
  {"approveOrder", "confirmDeliveryOrder", "deliveredOrder",
   "receivedAndInTransitOrder", "revokeOrder", "storeAuditDocumentOrder",
   "validatedOrder", "verifyInTransitOrder", "warehouseReceivedOrder",
   "warehouseReleasedOrder"}
dispatches(method) ==
  CASE method = "approveOrder" -> "approve"
    [] method = "confirmDeliveryOrder" -> "confirmDelivery"
    [] method = "deliveredOrder" -> "delivered"
    [] method = "receivedAndInTransitOrder" -> "receivedAndInTransit"
    [] method = "revokeOrder" -> "revoke"
    [] method = "storeAuditDocumentOrder" -> "storeAuditDocument"
    [] method = "validatedOrder" -> "validated"
    [] method = "verifyInTransitOrder" -> "verifyInTransit"
    [] method = "warehouseReceivedOrder" -> "warehouseReceivedOrder"
    [] method = "warehouseReleasedOrder" -> "warehouseReleasedOrder"

\* A transaction as the gateway issues it: sendDefaults.from is the sender.
Issued(method) ==
  [method |-> method, sender |-> from, resolved |-> servicePromise = "resolved"]

\* sendOrder(order, methodName): setOwners(order, this.from) is issued with
\* this.from in the 5 slots; the promise sendOrder returns is pending.
sendOrder(a, methodName) ==
  [SendIdle EXCEPT !.pc = "setOwners", !.id = a, !.methodName = methodName,
                   !.userAddress = from,
                   !.slots = [i \in 1..5 |-> from],
                   !.events = <<"setOwners.issued">>,
                   !.promise = "pending"]

\* setOwners resolved: order.contract[methodName] is called.  A name that
\* is no method of the contract throws a TypeError inside the then-callback
\* of the executor's own chain, which nothing handles.
setOwnersResolved(sd) ==
  IF sd.methodName \in LedgerMethods
  THEN [sd EXCEPT !.pc = "transition",
                  !.events = @ \o <<"setOwners.ack", "transition.issued">>]
  ELSE [sd EXCEPT !.pc = "unhandled",
                  !.events = @ \o <<"setOwners.ack", "transition.error">>]

\* Mutant of setOwnersRejected: the transition is sent all the same.
setOwnersRejectedGoesOn(sd) ==
  [sd EXCEPT !.pc = IF sd.methodName \in LedgerMethods THEN "transition"
                    ELSE "unhandled",
             !.events = @ \o <<"setOwners.error", "transition.issued">>]

\* setOwners rejected: the rejection stays in the chain the executor
\* returned; neither resolve nor reject of sendOrder's promise is called.
setOwnersRejected(sd) ==
  [sd EXCEPT !.pc = "unhandled", !.events = @ \o <<"setOwners.error">>]

\* The transition's callback got a value: resolve(resp), and the next then
\* calls getOrderByAddress(order.id).
transitionResolved(sd) ==
  [sd EXCEPT !.pc = "hydrate",
             !.events = @ \o <<"transition.ack", "hydrate.start">>]

\* catch(err => console.error(err)): the error is logged and sendOrder's
\* promise resolves with undefined.
caught(sd, failure) ==
  [sd EXCEPT !.pc = "settled", !.events = @ \o <<failure>>,
             !.logged = Append(@, failure),
             !.promise = "resolved", !.value = <<>>]

\* getOrderByAddress resolved: updatedOrderSource.next(updatedOrder), and
\* sendOrder's promise resolves with updatedOrder.
rehydrated(sd, updatedOrder) ==
  [sd EXCEPT !.pc = "settled",
             !.events = @ \o <<"hydrate.done", "published">>,
             !.published = Append(@, updatedOrder),
             !.promise = "resolved", !.value = <<updatedOrder>>]

\* An action method is called on an order hydrated before.  (The hydration
\* of an earlier call is over: its record is cleared.)
SendOrder ==
  \E a \in Deployed, m \in ActionMethodNames :
    /\ send.pc \in {"idle", "settled", "unhandled"}
    /\ send' = sendOrder(a, m)
    /\ wire' = Issued("setOwners")
    /\ builds' = [builds EXCEPT ![0] = BuildIdle]
    /\ UNCHANGED <<ledgerVars, now, lastCall, calls, servicePromise, accounts,
                   from, page, creation, newOrderSource>>

\* setOwners went through (a transaction needs a sender: with
\* sendDefaults.from undefined the node only answers with an error).
SetOwnersReply ==
  /\ send.pc = "setOwners"
  /\ send.userAddress # "undefined"
  /\ setOwners(send.id, send.userAddress, send.slots)
  /\ send' = setOwnersResolved(send)
  /\ wire' = IF send'.pc = "transition" THEN Issued(send.methodName) ELSE wire
  /\ UNCHANGED <<now, calls, servicePromise, accounts, from, builds, page,
                 creation, newOrderSource>>

SetOwnersError ==
  /\ send.pc = "setOwners"
  /\ send' = setOwnersRejected(send)
  /\ wire' = IF send'.pc = "transition" THEN Issued(send.methodName) ELSE wire
  /\ UNCHANGED <<ledgerVars, now, lastCall, calls, servicePromise, accounts,
                 from, builds, page, creation, newOrderSource>>

\* The transition is executed.  When it went through the order is hydrated
\* again; when a require failed the callback gets the error.
TransitionReply ==
  /\ send.pc = "transition"
  /\ send.userAddress # "undefined"
  /\ Call(send.id, from, send.methodName)
  /\ IF lastCall'.ok
     THEN /\ send' = transitionResolved(send)
          /\ builds' = [builds EXCEPT ![0] = buildOrder(-1, send.id)]
     ELSE /\ send' = caught(send, "transition.error")
          /\ UNCHANGED builds
  /\ UNCHANGED <<now, calls, servicePromise, accounts, from, page, creation,
                 newOrderSource, wire>>

\* The transition is answered with an error of the node or the transport.
TransitionError ==
  /\ send.pc = "transition"
  /\ send' = caught(send, "transition.error")
  /\ UNCHANGED <<ledgerVars, now, lastCall, calls, servicePromise, accounts,
                 from, builds, page, creation, newOrderSource, wire>>

SendRehydrated ==
  /\ send.pc = "hydrate"
  /\ builds[0].pc = "resolved"
  /\ send' = rehydrated(send, builds[0].order)
  /\ UNCHANGED <<ledgerVars, now, lastCall, calls, servicePromise, accounts,
                 from, builds, page, creation, newOrderSource, wire>>

SendRehydrateFailed ==
  /\ send.pc = "hydrate"
  /\ builds[0].pc = "rejected"
  /\ send' = caught(send, "hydrate.error")
  /\ UNCHANGED <<ledgerVars, now, lastCall, calls, servicePromise, accounts,
                 from, builds, page, creation, newOrderSource, wire>>

\* The remote calls of a sendOrder are answered and its callbacks run.
SendAnswers ==
  \/ SetOwnersReply
  \/ SetOwnersError
  \/ TransitionReply
  \/ TransitionError
  \/ GetHistoryLengthReply
  \/ HistoryReply
  \/ MetaReply
  \/ StateReply
  \/ ReadError
  \/ BuildOrderResolve
  \/ BuildOrderReject
  \/ SendRehydrated
  \/ SendRehydrateFailed

NextSend ==
  \/ GetAccountsReply
  \/ GetAccountsError
  \/ SendOrder
  \/ SendAnswers

SpecSend == InitOrder /\ [][NextSend]_vars

\* Every remote call is answered, with a value or with an error, and every
\* callback whose promise has settled runs.
SpecSendFair == SpecSend /\ WF_vars(SendAnswers)

\* ------------------------------------------------------------------------
\* BlockchainService: createOrder
\* ------------------------------------------------------------------------
\* The quantities orders are created with.
Quantities == {1, 10}

\* createOrder(productType, quantity): waits for servicePromise.
createOrder(productType, quantity) ==
  [CreationIdle EXCEPT !.pc = "wait", !.productType = productType,
                       !.quantity = quantity, !.promise = "pending"]

\* Mutant of created: the signal is sent whatever the callback got.
createdAlwaysSignals(c) ==
  [c EXCEPT !.pc = "settled",
            !.promise = IF c.outcome = "ok" THEN "resolved" ELSE "rejected",
            !.signals = 1]

\* The callback of create: with an address the promise resolves and the
\* then-callback sends the new-order signal; with an error the promise is
\* rejected and the then-callback is skipped.
created(c) ==
  IF c.outcome = "ok"
  THEN [c EXCEPT !.pc = "settled", !.promise = "resolved", !.signals = 1]
  ELSE [c EXCEPT !.pc = "settled", !.promise = "rejected"]

CreateOrder ==
  \E productType \in items, quantity \in Quantities :
    /\ creation.pc \in {"idle", "settled"}
    /\ Len(registry) < MaxOrders
    /\ creation' = createOrder(productType, quantity)
    /\ UNCHANGED <<ledgerVars, now, lastCall, calls, servicePromise, accounts,
                   from, builds, page, send, newOrderSource, wire>>

\* servicePromise has resolved: ordersContract.create is sent.
CreateIssue ==
  /\ creation.pc = "wait"
  /\ servicePromise = "resolved"
  /\ creation' = [creation EXCEPT !.pc = "create"]
  /\ wire' = Issued("create")
  /\ UNCHANGED <<ledgerVars, now, lastCall, calls, servicePromise, accounts,
                 from, builds, page, send, newOrderSource>>

\* servicePromise was rejected: createOrder's promise is rejected and
\* create is never sent.
CreateAbandon ==
  /\ creation.pc = "wait"
  /\ servicePromise = "rejected"
  /\ creation' = [creation EXCEPT !.pc = "settled", !.promise = "rejected"]
  /\ UNCHANGED <<ledgerVars, now, lastCall, calls, servicePromise, accounts,
                 from, builds, page, send, newOrderSource, wire>>

\* The registry executes create(fromUtf8(productType), quantity).
CreateExec ==
  /\ creation.pc = "create"
  /\ create(bytes32(creation.productType), creation.quantity, from)
  /\ creation' = [creation EXCEPT !.pc = "answer", !.outcome = "ok"]
  /\ UNCHANGED <<now, servicePromise, accounts, from, builds, page, send,
                 newOrderSource, wire>>

\* create fails (the node or the transport answers with an error).
CreateFail ==
  /\ creation.pc = "create"
  /\ creation' = [creation EXCEPT !.pc = "answer", !.outcome = "error"]
  /\ UNCHANGED <<ledgerVars, now, lastCall, calls, servicePromise, accounts,
                 from, builds, page, send, newOrderSource, wire>>

\* The callback of create runs.
CreateReply ==
  /\ creation.pc = "answer"
  /\ creation' = created(creation)
  /\ newOrderSource' = newOrderSource + creation'.signals
  /\ UNCHANGED <<ledgerVars, now, lastCall, calls, servicePromise, accounts,
                 from, builds, page, send, wire>>

NextCreate ==
  \/ GetAccountsReply
  \/ GetAccountsError
  \/ CreateOrder
  \/ CreateIssue
  \/ CreateAbandon
  \/ CreateExec
  \/ CreateFail
  \/ CreateReply

SpecCreate == InitList /\ [][NextCreate]_vars

\* ------------------------------------------------------------------------
\* Hydrations of one order whose reads may fail
\* ------------------------------------------------------------------------
NextFail ==
  \/ Transition({"approve", "validated"})
  \/ GetOrderByAddress
  \/ GetHistoryLengthReply
  \/ HistoryReply
  \/ MetaReply
  \/ StateReply
  \/ ReadError
  \/ BuildOrderResolve
  \/ BuildOrderReject

SpecFail == InitOrder /\ [][NextFail]_vars


\* ------------------------------------------------------------------------
\* The documented transition table (call, role, precondition, label,
\* resulting state) the properties are stated against
\* ------------------------------------------------------------------------
LifecycleCalls ==
  {"approve", "validated", "storeAuditDocument", "warehouseReceivedOrder",
   "warehouseReleasedOrder", "receivedAndInTransit", "confirmDelivery"}

RequiredRoleHolder(m) ==
  CASE m = "approve" -> farmer
    [] m = "validated" -> auditor
    [] m = "storeAuditDocument" -> auditor
    [] m = "warehouseReceivedOrder" -> warehouse
    [] m = "warehouseReleasedOrder" -> warehouse
    [] m = "receivedAndInTransit" -> distributor
    [] m = "confirmDelivery" -> supermarket

PreconditionState(m) ==
  CASE m = "approve" -> "Ordered"
    [] m = "validated" -> "Approved"
    [] m = "storeAuditDocument" -> "Audited"
    [] m = "warehouseReceivedOrder" -> "Audited"
    [] m = "warehouseReleasedOrder" -> "AtWarehouse"
    [] m = "receivedAndInTransit" -> "WarehouseReleased"
    [] m = "confirmDelivery" -> "InTransit"

FixedLabel(m) ==
  CASE m = "approve" -> StrApproved
    [] m = "validated" -> StrAudited
    [] m = "storeAuditDocument" -> StrStoredDocument
    [] m = "warehouseReceivedOrder" -> StrReceived
    [] m = "warehouseReleasedOrder" -> StrReleased
    [] m = "receivedAndInTransit" -> StrInTransit
    [] m = "confirmDelivery" -> StrConfirmedDelivery

SuccessorState(m) ==
  CASE m = "approve" -> "Approved"
    [] m = "validated" -> "Audited"
    [] m = "storeAuditDocument" -> "Audited"
    [] m = "warehouseReceivedOrder" -> "AtWarehouse"
    [] m = "warehouseReleasedOrder" -> "WarehouseReleased"
    [] m = "receivedAndInTransit" -> "InTransit"
    [] m = "confirmDelivery" -> "Delivered"
    [] m = "revoke" -> "Revoked"

\* A step that is a transaction: its receipt is lastCall'.  (A step that
\* changes neither the receipt nor the ledger changes nothing a property
\* below speaks of.)
TxStep == lastCall' # lastCall \/ ledgerVars' # ledgerVars
TxOn(a, m) == TxStep /\ lastCall'.addr = a /\ lastCall'.method = m

IsPrefix(s, t) == Len(s) <= Len(t) /\ SubSeq(t, 1, Len(s)) = s

\* ------------------------------------------------------------------------
\* Properties of the order ledger
\* ------------------------------------------------------------------------
\* C1: a lifecycle call whose caller does not hold the required role, or
\* whose order is not in the call's precondition state, fails and leaves the
\* order's state, meta and history exactly as they were.
C1_RejectedCallChangesNothing ==
  [][\A a \in Deployed, m \in LifecycleCalls :
       (/\ TxOn(a, m)
        /\ \/ lastCall'.sender # RequiredRoleHolder(m)
           \/ state[a] # PreconditionState(m))
       => /\ ~lastCall'.ok
          /\ state'[a] = state[a]
          /\ meta'[a] = meta[a]
          /\ history'[a] = history[a]]_vars

\* C1 witness: the farmer's approve was rejected on an Audited order that
\* already has two history records.
C1_Witness ==
  \E a \in Deployed :
    /\ lastCall = Receipt(a, farmer, "approve", <<>>, FALSE)
    /\ state[a] = "Audited"
    /\ Len(history[a]) = 2

\* C2: a successful lifecycle call appends exactly one record, carrying the
\* caller's address and the call's fixed label, and moves the order to the
\* documented successor state (storeAuditDocument leaves the state).
C2_SuccessfulCallRecords ==
  [][\A a \in Deployed, m \in LifecycleCalls :
       (TxOn(a, m) /\ lastCall'.ok)
       => /\ Len(history'[a]) = Len(history[a]) + 1
          /\ SubSeq(history'[a], 1, Len(history[a])) = history[a]
          /\ history'[a][Len(history'[a])].who = lastCall'.sender
          /\ history'[a][Len(history'[a])].action = bytes32(FixedLabel(m))
          /\ state'[a] = SuccessorState(m)
          /\ (m = "storeAuditDocument" => state'[a] = state[a])]_vars

\* C2 witness: the supermarket's confirmDelivery went through, leaving a
\* Delivered order whose last record is its own.
C2_Witness ==
  \E a \in Deployed :
    /\ lastCall = Receipt(a, supermarket, "confirmDelivery", <<>>, TRUE)
    /\ state[a] = "Delivered"
    /\ history[a][Len(history[a])].who = supermarket

\* C3: in every step the state of an order stays, advances to the next
\* state of the chain Ordered .. Delivered, or becomes Revoked through
\* revoke.
C3_NoSkippedState ==
  [][\A a \in Deployed :
       \/ state'[a] = state[a]
       \/ /\ StateOrdinal(state'[a]) = StateOrdinal(state[a]) + 1
          /\ state'[a] # "Revoked"
       \/ /\ state'[a] = "Revoked"
          /\ lastCall'.addr = a
          /\ lastCall'.method = "revoke"]_vars

\* C3 witness: an order has walked the whole chain, one record per state.
C3_Witness ==
  \E a \in Deployed : state[a] = "Delivered" /\ Len(history[a]) = 6

\* C4 as stated: once an order is Delivered, no call changes its state or
\* meta.revoked.
C4_DeliveredIsFinal ==
  [][\A a \in Deployed :
       state[a] = "Delivered"
       => state'[a] = "Delivered" /\ meta'[a].revoked = meta[a].revoked]_vars

\* C4 amended: once an order is Delivered, the only call that changes its
\* state or meta.revoked is a revoke by the farmer or the auditor, which
\* makes it Revoked with meta.revoked true.
C4_DeliveredLeftOnlyByRevoke ==
  [][\A a \in Deployed :
       state[a] = "Delivered"
       => \/ state'[a] = "Delivered" /\ meta'[a].revoked = meta[a].revoked
          \/ /\ lastCall'.addr = a
             /\ lastCall'.method = "revoke"
             /\ lastCall'.sender \in {farmer, auditor}
             /\ lastCall'.ok
             /\ state'[a] = "Revoked"
             /\ meta'[a].revoked = TRUE]_vars

\* C4 witness: an order revoked after its delivery was confirmed.
C4_Witness ==
  \E a \in Deployed :
    /\ state[a] = "Revoked"
    /\ Len(history[a]) >= 6
    /\ history[a][Len(history[a])].action = bytes32(StrConfirmedDelivery)

\* C5: revoke by the farmer or the auditor on an order that is neither
\* Delivered nor Revoked succeeds and sets state = Revoked and
\* meta.revoked = true; revoke by any other caller is rejected and changes
\* nothing of the order.
C5_RevokeByFarmerOrAuditor ==
  [][\A a \in Deployed :
       TxOn(a, "revoke")
       => /\ (lastCall'.sender \in {farmer, auditor}
                /\ state[a] \notin {"Delivered", "Revoked"})
             => /\ lastCall'.ok
                /\ state'[a] = "Revoked"
                /\ meta'[a].revoked = TRUE
          /\ lastCall'.sender \notin {farmer, auditor}
             => /\ ~lastCall'.ok
                /\ state'[a] = state[a]
                /\ meta'[a] = meta[a]
                /\ history'[a] = history[a]
                /\ locationHistory'[a] = locationHistory[a]
                /\ owners'[a] = owners[a]]_vars

\* C5 witness: the auditor revoked an order that had reached the warehouse.
C5_Witness ==
  \E a \in Deployed :
    /\ lastCall = Receipt(a, auditor, "revoke", <<>>, TRUE)
    /\ state[a] = "Revoked"
    /\ Len(history[a]) = 3
    /\ history[a][3].action = bytes32(StrReceived)

\* C6: meta.revoked is true exactly when the state is Revoked.
C6_RevokedFlagIffRevoked ==
  \A a \in Deployed : meta[a].revoked <=> state[a] = "Revoked"

\* C6 witness: a revoked order that carries the flag.
C6_Witness ==
  \E a \in Deployed :
    /\ lastCall.method = "revoke"
    /\ meta[a].revoked
    /\ Len(history[a]) >= 1

\* C7: history is append-only: in every step the history before is a prefix
\* of the history after.
C7_HistoryAppendOnly ==
  [][\A a \in Deployed : IsPrefix(history[a], history'[a])]_vars

\* C7 witness: a revoked order with two records, a location entry and
\* owners set.
C7_Witness ==
  \E a \in Deployed :
    /\ Len(history[a]) >= 2
    /\ Len(locationHistory[a]) >= 1
    /\ owners[a] \in OwnerArgs
    /\ state[a] = "Revoked"

\* C9: updateLocation succeeds exactly when the caller is in the order's
\* owner set, whatever the lifecycle state; on success it appends one
\* {latitude, longitude, caller} entry and leaves state, meta and history;
\* when rejected it leaves locationHistory.
C9_UpdateLocationOwnersOnly ==
  [][\A a \in Deployed :
       TxOn(a, "updateLocation")
       => /\ lastCall'.ok <=> (\E i \in 1..5 : owners[a][i] = lastCall'.sender)
          /\ lastCall'.ok
             => /\ locationHistory'[a] =
                     Append(locationHistory[a],
                            [latitude |-> lastCall'.args[1],
                             longitude |-> lastCall'.args[2],
                             who |-> lastCall'.sender])
                /\ state'[a] = state[a]
                /\ meta'[a] = meta[a]
                /\ history'[a] = history[a]
          /\ ~lastCall'.ok => locationHistory'[a] = locationHistory[a]]_vars

\* C9 witness: an owner recorded the location of a Delivered order.
C9_Witness ==
  \E a \in Deployed :
    /\ lastCall.method = "updateLocation"
    /\ lastCall.ok
    /\ state[a] = "Delivered"
    /\ Len(locationHistory[a]) = 1


\* ------------------------------------------------------------------------
\* Properties of the gateway
\* ------------------------------------------------------------------------
\* A resolved buildOrder of an order on which no transition went through
\* between its start and now.
HydratedAtRest(t) ==
  /\ builds[t].pc = "resolved"
  /\ builds[t].started = Len(calls[builds[t].order.id])

IsRecorded(c) == c.method # "revoke"

\* C8 as stated: hydrating an order right after N successful transitions
\* gives a history of exactly N entries with actors and labels in call
\* order, and the status that is the successor state of the last transition.
C8_HydrationRoundTrip ==
  \A t \in DOMAIN builds :
    HydratedAtRest(t)
    => LET o == builds[t].order
           log == calls[o.id]
           N == Len(log)
       IN /\ Len(o.history) = N
          /\ \A k \in 1..N :
               /\ log[k].method \in LifecycleCalls
               /\ o.history[k].owner = log[k].who
               /\ o.history[k].action = FixedLabel(log[k].method)
          /\ N > 0 => o.status = StateOrdinal(SuccessorState(log[N].method))

\* C8 amended: hydrating an order right after N successful transitions gives
\* a history with one entry for each of them that is not a revoke (revoke
\* records nothing), actors and labels in call order, and the status that
\* is the successor state of the last transition (Ordered when N = 0).
C8_HydrationRoundTripButRevoke ==
  \A t \in DOMAIN builds :
    HydratedAtRest(t)
    => LET o == builds[t].order
           log == calls[o.id]
           N == Len(log)
           recorded == SelectSeq(log, IsRecorded)
       IN /\ Len(o.history) = Len(recorded)
          /\ \A k \in 1..Len(recorded) :
               /\ o.history[k].owner = recorded[k].who
               /\ o.history[k].action = FixedLabel(recorded[k].method)
          /\ N > 0 => o.status = StateOrdinal(SuccessorState(log[N].method))
          /\ N = 0 => o.status = StateOrdinal("Ordered")

\* C8 witness: an order hydrated right after approve, validated,
\* storeAuditDocument and revoke: three entries, status Revoked.
C8_Witness ==
  /\ HydratedAtRest(0)
  /\ Len(calls[builds[0].order.id]) = 4
  /\ calls[builds[0].order.id][3].method = "storeAuditDocument"
  /\ calls[builds[0].order.id][4].method = "revoke"
  /\ Len(builds[0].order.history) = 3
  /\ builds[0].order.status = 7

\* The indices the documented window [startIndex, min(total, startIndex +
\* pageSize)) holds.
Window(total, startIndex, pageSize) ==
  {i \in 0..(total - 1) :
     startIndex <= i /\ i < Min(total, startIndex + pageSize)}

\* C10: orders(startIndex, pageSize) asks the registry only for the indices
\* of the window, in ascending order, never for an index >= total and for
\* none when total is 0; it returns total as read by getAmount and, in
\* ascending index order, the hydrated orders at exactly those indices.
C10_ListPage ==
  LET w == Window(page.total, page.startIndex, page.pageSize)
  IN /\ page.pc # "rejected"
     /\ page.pc \in {"fetch", "resolved"}
        => /\ page.total \in page.countAtCall..Len(registry)
           /\ Len(page.indices) = Cardinality(w)
           /\ \A k \in 1..Len(page.indices) :
                /\ page.indices[k] = page.startIndex + k - 1
                /\ page.indices[k] < page.total
           /\ page.total = 0 => page.indices = <<>>
     /\ page.pc = "resolved"
        => /\ page.result.total = page.total
           /\ Len(page.result.orders) = Cardinality(w)
           /\ \A k \in 1..Len(page.result.orders) :
                LET o == page.result.orders[k]
                    a == registry[(page.startIndex + k - 1) + 1]
                IN /\ o.id = a
                   /\ o.amount = meta[a].amount
                   /\ bytes32(o.product) = meta[a].product
                   /\ Len(o.history) <= Len(history[a])
                   /\ \A j \in 1..Len(o.history) :
                        /\ o.history[j].owner = history[a][j].who
                        /\ bytes32(o.history[j].action) = history[a][j].action
                   /\ o.status \in {StateOrdinal("Ordered"),
                                    StateOrdinal(state[a])}

\* C10 witness: with two orders in the registry, orders(1, 2) returned
\* total 2 and the one order at index 1, which had been approved.
C10_Witness ==
  /\ page.pc = "resolved"
  /\ page.startIndex = 1
  /\ page.pageSize = 2
  /\ page.result.total = 2
  /\ Len(page.result.orders) = 1
  /\ page.result.orders[1].id = registry[2]
  /\ Len(page.result.orders[1].history) = 1

\* C11: whatever the interleaving and the completion order of the
\* hydrations one orders() call started, the k-th order it returns is the
\* hydration of registry index startIndex + k (k from 0).
C11_PageInIndexOrder ==
  page.pc = "resolved"
  => \A k \in 1..Len(page.result.orders) :
       /\ builds[k].index = page.startIndex + (k - 1)
       /\ page.result.orders[k] = builds[k].order
       /\ page.result.orders[k].id = registry[page.startIndex + (k - 1) + 1]

\* C11 witness: a page of two orders whose second hydration completed
\* before the first.
C11_Witness ==
  /\ page.pc = "resolved"
  /\ Len(page.result.orders) = 2
  /\ page.completed = <<2, 1>>
  /\ page.result.orders[1].id # page.result.orders[2].id

\* C12: a hydration returns an order only after the meta read, the state
\* read, the getHistoryLength read and every history(i) read have
\* succeeded; once one of them has failed the hydration can only fail, and
\* a failed hydration returns no order.
C12_HydrationFailFast ==
  \A t \in DOMAIN builds :
    LET b == builds[t]
    IN /\ b.pc = "resolved"
          => /\ b.failed = {}
             /\ b.lenDone /\ b.metaDone /\ b.statusDone
             /\ b.got = {i \in 0..(b.historyLength - 1) : TRUE}
             /\ Len(b.order.history) = b.historyLength
       /\ b.failed # {} => b.pc \in {"running", "rejected"}
       /\ b.pc = "rejected" => b.failed # {}

\* C12 witness: a hydration failed on history(1) after meta, state, the
\* length and history(0) had been read.
C12_Witness ==
  /\ builds[0].pc = "rejected"
  /\ builds[0].metaDone /\ builds[0].statusDone
  /\ builds[0].historyLength = 2
  /\ builds[0].got = {0}
  /\ builds[0].failed = {[read |-> "history", i |-> 1, why |-> "transport"]}

\* The failures of the three steps of a sendOrder call.
StepFailures == {"setOwners.error", "transition.error", "hydrate.error"}
HasFailed(sd) == \E j \in 1..Len(sd.events) : sd.events[j] \in StepFailures

\* C13: a failure of setOwners, of the transition call or of the
\* re-hydration is caught and logged by sendOrder; the promise it returned
\* is not rejected and no order is published on updatedOrderSource.
C13_FailuresCaughtAndLogged ==
  HasFailed(send)
  => /\ Len(send.logged) = 1
     /\ send.logged[1] \in StepFailures
     /\ send.promise # "rejected"
     /\ send.published = <<>>

\* C14: createOrder sends the new-order signal exactly once for a create
\* that succeeded, after the call has returned, and sends nothing for a
\* create that failed: the signals sent so far are as many as the orders
\* created, less the one whose answer is still on its way, and a step sends
\* a signal only as the callback of a successful create.
C14_NewOrderSignal ==
  [][/\ newOrderSource' =
          Len(registry') -
            (IF creation'.pc = "answer" /\ creation'.outcome = "ok"
             THEN 1 ELSE 0)
     /\ newOrderSource' # newOrderSource
        => /\ newOrderSource' = newOrderSource + 1
           /\ creation.pc = "answer" /\ creation.outcome = "ok"
           /\ creation'.promise = "resolved"
           /\ lastCall.method = "create" /\ lastCall.ok
           /\ registry' = registry
     /\ creation'.promise = "rejected" => newOrderSource' = newOrderSource]_vars

\* C14 witness: one create succeeded and was signalled, and the next one
\* failed and was not.
C14_Witness ==
  /\ newOrderSource = 1
  /\ Len(registry) = 1
  /\ creation.pc = "settled"
  /\ creation.outcome = "error"
  /\ creation.promise = "rejected"

\* Position of the first event e of a sendOrder call (0: none).
FirstAt(sd, e) ==
  IF \E j \in 1..Len(sd.events) : sd.events[j] = e
  THEN CHOOSE j \in 1..Len(sd.events) :
         /\ sd.events[j] = e
         /\ \A i \in 1..(j - 1) : sd.events[i] # e
  ELSE 0
Count(sd, e) == Cardinality({j \in 1..Len(sd.events) : sd.events[j] = e})

\* C15: every sendOrder call runs its steps in one order: setOwners with
\* the caller's address in all 5 slots is issued first and acknowledged
\* before the transition is issued; the transition is acknowledged before
\* the re-hydration starts; the order is published at most once, after the
\* re-hydration completed, and it is the re-hydrated order.
C15_StepsInOrder ==
  send.pc # "idle"
  => /\ send.events[1] = "setOwners.issued"
     /\ Count(send, "setOwners.issued") = 1
     /\ send.slots = [i \in 1..5 |-> send.userAddress]
     /\ FirstAt(send, "transition.issued") # 0
        => /\ Count(send, "transition.issued") = 1
           /\ FirstAt(send, "setOwners.ack") # 0
           /\ FirstAt(send, "setOwners.ack") < FirstAt(send, "transition.issued")
           /\ Len(accounts) >= 2
           /\ send.userAddress = accounts[2]
     /\ FirstAt(send, "hydrate.start") # 0
        => /\ FirstAt(send, "transition.ack") # 0
           /\ FirstAt(send, "transition.issued") < FirstAt(send, "transition.ack")
           /\ FirstAt(send, "transition.ack") < FirstAt(send, "hydrate.start")
     /\ builds[0].pc # "idle" => FirstAt(send, "hydrate.start") # 0
     /\ Len(send.published) = Count(send, "published")
     /\ Len(send.published) <= 1
     /\ Len(send.published) = 1
        => /\ FirstAt(send, "hydrate.done") # 0
           /\ FirstAt(send, "hydrate.start") < FirstAt(send, "hydrate.done")
           /\ FirstAt(send, "hydrate.done") < FirstAt(send, "published")
           /\ builds[0].pc = "resolved"
           /\ send.published[1] = builds[0].order
           /\ send.published[1].id = send.id

\* C15 witness: the farmer's approve went through all four steps and the
\* approved order was published.
C15_Witness ==
  /\ send.pc = "settled"
  /\ send.methodName = "approve"
  /\ send.events = <<"setOwners.issued", "setOwners.ack", "transition.issued",
                     "transition.ack", "hydrate.start", "hydrate.done",
                     "published">>
  /\ Len(send.published) = 1
  /\ send.published[1].status = 1
  /\ Len(send.published[1].history) = 1
  /\ owners[send.id] = [i \in 1..5 |-> "acctFarmer"]

\* C16: the account is resolved by the one getAccounts call of the
\* constructor, and every transaction the gateway issues (create,
\* setOwners, the transition calls) is issued after that call has resolved
\* and carries the resolved address as its sender.
C16_CallsAfterAccountResolution ==
  /\ servicePromise = "resolved" <=> Len(accounts) >= 2
  /\ wire.method # "none"
     => /\ wire.resolved
        /\ Len(accounts) >= 2
        /\ wire.sender = accounts[2]

\* C17: with every remote call answered in the end, by a value or by an
\* error, every sendOrder call settles the promise it returned: it
\* resolves with the re-hydrated order on success and without a value
\* after a failure of setOwners, of the transition or of the re-hydration.
C17_SendOrderSettles ==
  /\ [](send.promise = "resolved"
          => IF HasFailed(send) THEN send.value = <<>>
             ELSE send.value = <<builds[0].order>>)
  /\ [](send.promise # "rejected")
  /\ (send.pc = "setOwners") ~> (send.promise = "resolved")

\* The status and the history of the ledger state an order was in after
\* the first n calls of its log.
StatusAfter(log, n) ==
  IF n = 0 THEN StateOrdinal("Ordered")
  ELSE StateOrdinal(SuccessorState(log[n].method))
HistoryAfter(log, n) ==
  LET recorded == SelectSeq(SubSeq(log, 1, n), IsRecorded)
  IN [k \in 1..Len(recorded) |->
        [action |-> FixedLabel(recorded[k].method), owner |-> recorded[k].who]]

\* C18: whatever transitions are committed between the reads of one
\* hydration, the status and the history of the order it returns are those
\* of one single ledger state the order was in from the start of the
\* hydration on.
C18_SnapshotOfOneLedgerState ==
  \A t \in DOMAIN builds :
    builds[t].pc = "resolved"
    => LET o == builds[t].order
           log == calls[o.id]
       IN \E n \in builds[t].started..Len(log) :
            /\ o.status = StatusAfter(log, n)
            /\ [k \in 1..Len(o.history) |->
                  [action |-> o.history[k].action, owner |-> o.history[k].owner]]
               = HistoryAfter(log, n)

\* C19: whatever transitions are committed during a hydration, it asks
\* for getHistoryLength first and then for history(i) once for each i of
\* 0..L-1 (L the length answered; none when L = 0); each i is below the
\* ledger's history length, no read fails with a range error, and the
\* history returned is the first L entries of the ledger's history in
\* index order.
C19_HistoryReadsInRange ==
  \A t \in DOMAIN builds :
    LET b == builds[t]
        a == b.order.id
    IN b.pc \in {"running", "resolved"}
       => /\ \A f \in b.failed : f.why # "range"
          /\ ~b.lenDone => b.recs = <<>> /\ b.got = {}
          /\ b.lenDone
             => /\ Len(b.recs) = b.historyLength
                /\ b.historyLength <= Len(history[a])
                /\ \A r \in PendingReads(b) :
                     r.read = "history" => r.i \in 0..(b.historyLength - 1)
                /\ b.got \subseteq 0..(b.historyLength - 1)
          /\ b.pc = "resolved"
             => /\ b.got = {i \in 0..(b.historyLength - 1) : TRUE}
                /\ Len(b.order.history) = b.historyLength
                /\ \A k \in 1..b.historyLength :
                     /\ b.order.history[k].owner = history[a][k].who
                     /\ bytes32(b.order.history[k].action) = history[a][k].action

\* C19 witness: a hydration that was answered length 2 returned two
\* entries while the ledger's history had grown to 4.
C19_Witness ==
  /\ builds[0].pc = "resolved"
  /\ builds[0].historyLength = 2
  /\ builds[0].got = {0, 1}
  /\ Len(builds[0].order.history) = 2
  /\ Len(history[builds[0].order.id]) = 4

\* The labels of the chain Ordered .. Delivered, in order.
ChainLabels ==
  <<bytes32(StrApproved), bytes32(StrAudited), bytes32(StrReceived),
    bytes32(StrReleased), bytes32(StrInTransit), bytes32(StrConfirmedDelivery)>>
NotStoredDocument(rec) == rec.action # bytes32(StrStoredDocument)

\* C20: while an order is not Revoked, the labels of its history without
\* the "Stored document" entries are the first k labels of Approved,
\* Audited, Received, Released, In Transit, Confirmed Delivery, k being the
\* ordinal of its state.
C20_LabelsFollowState ==
  \A a \in Deployed :
    state[a] # "Revoked"
    => LET kept == SelectSeq(history[a], NotStoredDocument)
       IN /\ Len(kept) = StateOrdinal(state[a])
          /\ \A k \in 1..Len(kept) : kept[k].action = ChainLabels[k]

\* C20 witness: a Delivered order with a stored document: seven records,
\* six of them the labels of the chain.
C20_Witness ==
  \E a \in Deployed :
    /\ state[a] = "Delivered"
    /\ Len(history[a]) = 7
    /\ history[a][3].action = bytes32(StrStoredDocument)

\* C21: every public action method of the gateway hands sendOrder a method
\* name that is one of the ledger's mutating calls, so that once setOwners
\* is acknowledged the transition is issued.
C21_ActionMethodsDispatchLedgerCalls ==
  /\ ActionMethodNames = {dispatches(method) : method \in ActionMethods}
  /\ (send.pc # "idle" /\ FirstAt(send, "setOwners.ack") # 0)
     => /\ send.methodName \in LedgerMethods
        /\ FirstAt(send, "transition.issued") # 0
        /\ wire.method = send.methodName

====
